---------------------------- MODULE Spec2Model ----------------------------
(***************************************************************************)
(* Model of the commodities pipeline build file (dodo.py) and of the       *)
(* coverage check of pull_bbg_commodities_basis.py.                        *)
(*                                                                         *)
(*   - the Bloomberg gate (_check_bloomberg_terminal, BLOOMBERG_AVAILABLE) *)
(*   - the task declarations (task_* functions) and the graph they build   *)
(*   - the scheduler that walks the graph (run / clean)                    *)
(*   - _warn_on_sparse_series                                              *)
(***************************************************************************)
EXTENDS Naturals, Integers, Sequences, FiniteSets, TLC

VARIABLES
    env_skip,     \* os.environ["SKIP_BLOOMBERG"] ("" when unset)
    env_open,     \* os.environ["BLOOMBERG_TERMINAL_OPEN"] ("" when unset)
    cmd,          \* the command of this invocation: "run" or "clean"
    phase,        \* "load", "built", "running", "done", "aborted", "idle"
    gate,         \* "undecided", "available", "unavailable", "abort"
    prompts,      \* number of input() calls made in this invocation
    response,     \* what the operator typed at the prompt ("<none>": no prompt)
    graph,        \* the task dictionaries doit collected, by task name
    selected,     \* the tasks of this run: closure of the requested targets
    order,        \* the execution order computed for `selected`
    cursor,       \* position of the scheduler in `order`
    status,       \* execution record of every task
    executed,     \* number of actions of every task executed in this invocation
    files,        \* the filesystem: path -> modification time, 0 when missing
    clock,        \* the time a run's writes carry: it advances by two when a
                  \* run starts, and an edit between runs is dated clock + 1
    run,          \* number of the current invocation
    exitCode,     \* exit code of the invocation (-1 while it is running)
    prevFull,     \* the previous invocation was a complete successful run
    touched,      \* an input changed since the previous invocation ended
    panel,        \* the data frame handed to _warn_on_sparse_series
    request,      \* tickers, fields, start_date, end_date of the check
    warnings,     \* the warnings the check emitted, in order
    pulled,       \* the frame blp.bdh returned to the pull
    persisted,    \* the frame written to commodity_futures.parquet
    registry      \* the notebook_tasks dictionary of the build file

vars == <<env_skip, env_open, cmd, phase, gate, prompts, response, graph,
          selected, order, cursor, status, executed, files, clock, run,
          exitCode, prevFull, touched, panel, request, warnings, pulled,
          persisted, registry>>

gateVars == <<env_skip, env_open, gate, prompts, response>>
schedVars == <<cmd, phase, graph, selected, order, cursor, status, executed,
               files, clock, run, exitCode, prevFull, touched>>
checkVars == <<panel, request, warnings, pulled, persisted, registry>>

----------------------------------------------------------------------------
(* Bounds                                                                  *)

MaxRuns == 2        \* invocations of doit in one behaviour
MaxRows == 2        \* rows of a panel
MaxDate == 3        \* dates are 1..MaxDate

----------------------------------------------------------------------------
(* str.lower() and str.strip() on the strings the model draws inputs from  *)

Lower(s) ==
    CASE s = "TRUE" -> "true"
      [] s = "True" -> "true"
      [] s = "YES"  -> "yes"
      [] s = "Yes"  -> "yes"
      [] s = "Y"    -> "y"
      [] s = " Y "  -> " y "
      [] s = "N"    -> "n"
      [] s = "No"   -> "no"
      [] s = "Q"    -> "q"
      [] s = "QUIT" -> "quit"
      [] s = "Quit " -> "quit "
      [] s = "Maybe" -> "maybe"
      [] OTHER -> s

Strip(s) ==
    CASE s = " y "   -> "y"
      [] s = " yes"  -> "yes"
      [] s = "quit " -> "quit"
      [] s = " "     -> ""
      [] s = " 1"    -> "1"
      [] OTHER -> s

\* values of the two environment variables
EnvValues == {"", "1", "true", "TRUE", "True", "yes", "YES", "0", "false", "no", " 1"}

\* what the operator may type
Responses == {"", " ", "y", "Y", " Y ", "yes", " yes", "YES", "n", "N", "no", "No",
              "q", "Q", "quit", "QUIT", "Quit ", "maybe", "Maybe", "1", "true"}

----------------------------------------------------------------------------
(* dodo.py: the gate                                                       *)

Truthy == {"true", "1", "yes"}

\* an exit that reports success
ExitStatusZero(arg) == 0

\* SystemExit(arg): a string argument is printed and the exit status is 1
SystemExitStatus(arg) == IF arg = "<None>" THEN 0 ELSE 1

\* the check with n/no/q/quit taken for the default answer
CheckSkipOnQuit(skip, open, typed) ==
    IF Lower(skip) \in Truthy THEN [ret |-> "False", prompted |-> FALSE]
    ELSE IF Lower(open) \in Truthy THEN [ret |-> "True", prompted |-> FALSE]
    ELSE IF Strip(Lower(typed)) \in {"y", "yes"} THEN [ret |-> "True", prompted |-> TRUE]
    ELSE [ret |-> "False", prompted |-> TRUE]

\* the check with the two variables looked at in the other order
CheckOpenFirst(skip, open, typed) ==
    IF Lower(open) \in Truthy THEN [ret |-> "True", prompted |-> FALSE]
    ELSE IF Lower(skip) \in Truthy THEN [ret |-> "False", prompted |-> FALSE]
    ELSE LET r == Strip(Lower(typed)) IN
         IF r \in {"n", "no", "q", "quit"} THEN [ret |-> "exit", prompted |-> TRUE]
         ELSE IF r \in {"y", "yes"} THEN [ret |-> "True", prompted |-> TRUE]
         ELSE [ret |-> "False", prompted |-> TRUE]

\* _check_bloomberg_terminal(): what it returns ("True", "False", or "exit" for
\* SystemExit) and whether input() was called; `typed` is what input() returns
_check_bloomberg_terminal(skip, open, typed) ==
    IF Lower(skip) \in Truthy THEN [ret |-> "False", prompted |-> FALSE]
    ELSE IF Lower(open) \in Truthy THEN [ret |-> "True", prompted |-> FALSE]
    ELSE LET r == Strip(Lower(typed)) IN
         IF r \in {"n", "no", "q", "quit"} THEN [ret |-> "exit", prompted |-> TRUE]
         ELSE IF r \in {"y", "yes"} THEN [ret |-> "True", prompted |-> TRUE]
         ELSE [ret |-> "False", prompted |-> TRUE]

\* the decision a return value of the check stands for
Decision(ret) ==
    CASE ret = "True"  -> "available"
      [] ret = "False" -> "unavailable"
      [] ret = "exit"  -> "abort"

----------------------------------------------------------------------------
(* dodo.py: the task declarations                                          *)

DATA_DIR == "_data"
OUTPUT_DIR == "_output"

\* the defaults doit gives the keys a declaration leaves out
TaskDefaults == [actions |-> <<>>, task_dep |-> {}, file_dep |-> {},
                 targets |-> {}, clean |-> FALSE]

Declare(d) == [k \in DOMAIN TaskDefaults |->
                  IF k \in DOMAIN d THEN d[k] ELSE TaskDefaults[k]]

task_config ==
    Declare([actions |-> <<"create_dirs">>, targets |-> {DATA_DIR, OUTPUT_DIR}])

task_pull_wrds_futures ==
    Declare([actions |-> <<"python src/pull_wrds_futures.py">>,
             task_dep |-> {"config"}])

\* a gated declaration whose unavailable branch leaves out its dependency
ActiveDetachedWhenOff(BLOOMBERG_AVAILABLE) ==
    IF ~BLOOMBERG_AVAILABLE
    THEN Declare([actions |-> <<>>])
    ELSE Declare([actions |-> <<"python src/pull_bbg_active_commodities.py">>,
                  task_dep |-> {"config"}])

task_pull_bbg_active_commodities(BLOOMBERG_AVAILABLE) ==
    IF ~BLOOMBERG_AVAILABLE
    THEN Declare([actions |-> <<>>, task_dep |-> {"config"}])
    ELSE Declare([actions |-> <<"python src/pull_bbg_active_commodities.py">>,
                  task_dep |-> {"config"}])

BasisUngated(BLOOMBERG_AVAILABLE) ==
    Declare([actions |-> <<"python src/pull_bbg_commodities_basis.py">>,
             task_dep |-> {"config"}])

task_pull_bbg_commodities_basis(BLOOMBERG_AVAILABLE) ==
    IF ~BLOOMBERG_AVAILABLE
    THEN Declare([actions |-> <<>>, task_dep |-> {"config"}])
    ELSE Declare([actions |-> <<"python src/pull_bbg_commodities_basis.py">>,
                  task_dep |-> {"config"}])

task_pull_hkm ==
    Declare([actions |-> <<"python src/pull_he_kelly_manela.py">>,
             task_dep |-> {"config"}])

FormatHkmOnConfig ==
    Declare([actions |-> <<"python src/create_hkm_datasets.py">>,
             task_dep |-> {"config"}])

task_format_hkm ==
    Declare([actions |-> <<"python src/create_hkm_datasets.py">>,
             task_dep |-> {"pull_hkm"}])

CalcWithoutFormat ==
    Declare([actions |-> <<"python src/create_ftsfr_datasets.py">>,
             task_dep |-> {"pull_bbg_commodities_basis"}])

task_calc ==
    Declare([actions |-> <<"python src/create_ftsfr_datasets.py">>,
             task_dep |-> {"pull_bbg_commodities_basis", "format_hkm"}])

notebook_tasks ==
    [n \in {"summary_commodities_ipynb"} |->
        [path |-> "./src/" \o n \o ".py", file_dep |-> {}, targets |-> {}]]

notebook_files == {notebook_tasks[n].path : n \in DOMAIN notebook_tasks}

NotebookHtml(notebook) == OUTPUT_DIR \o "/" \o notebook \o ".html"

\* the name doit gives the sub-task a generator yields
SubTaskName(notebook) == "run_notebooks:" \o notebook

\* a notebook task that declares no target
NotebookTaskNoTargets(notebook) ==
    Declare([actions |-> <<"jupytext --to notebook", "nbconvert --execute",
                           "nbconvert --to html", "mv">>,
             file_dep |-> {notebook_tasks[notebook].path}
                             \cup notebook_tasks[notebook].file_dep,
             targets |-> notebook_tasks[notebook].targets,
             clean |-> TRUE,
             task_dep |-> {"calc"}])

\* a generator whose items all name one output file
NotebookTaskSharedHtml(reg, notebook) ==
    Declare([actions |-> <<"jupytext --to notebook", "nbconvert --execute",
                           "nbconvert --to html", "mv">>,
             file_dep |-> {reg[notebook].path} \cup reg[notebook].file_dep,
             targets |-> {OUTPUT_DIR \o "/notebook.html"} \cup reg[notebook].targets,
             clean |-> TRUE,
             task_dep |-> {"calc"}])

\* one dictionary yielded by task_run_notebooks, for a registry `reg`
NotebookTaskIn(reg, notebook) ==
    Declare([actions |-> <<"jupytext --to notebook", "nbconvert --execute",
                           "nbconvert --to html", "mv">>,
             file_dep |-> {reg[notebook].path} \cup reg[notebook].file_dep,
             targets |-> {NotebookHtml(notebook)} \cup reg[notebook].targets,
             clean |-> TRUE,
             task_dep |-> {"calc"}])

\* one dictionary yielded by task_run_notebooks
NotebookTask(notebook) == NotebookTaskIn(notebook_tasks, notebook)

\* what doit collects from the generator: the group and one sub-task per item
CollectNotebooks(reg) ==
    [t \in {"run_notebooks"} \cup {SubTaskName(n) : n \in DOMAIN reg} |->
        IF t = "run_notebooks"
        THEN Declare([task_dep |-> {SubTaskName(n) : n \in DOMAIN reg}])
        ELSE NotebookTaskIn(reg, CHOOSE n \in DOMAIN reg : SubTaskName(n) = t)]

\* the group task doit makes of a generator: no action, depends on its sub-tasks
task_run_notebooks ==
    Declare([task_dep |-> {SubTaskName(n) : n \in DOMAIN notebook_tasks}])

CHART_HTML == OUTPUT_DIR \o "/commodities_cumulative_returns.html"
RETURNS_PARQUET == DATA_DIR \o "/ftsfr_commodities_returns.parquet"

task_generate_charts ==
    Declare([actions |-> <<"python src/generate_chart.py">>,
             file_dep |-> {"src/generate_chart.py", RETURNS_PARQUET},
             targets |-> {CHART_HTML},
             task_dep |-> {"calc"}])

task_generate_pipeline_site ==
    Declare([actions |-> <<"chartbook build -f">>,
             file_dep |-> {"chartbook.toml", CHART_HTML} \cup notebook_files,
             task_dep |-> {"run_notebooks", "generate_charts"}])

NotebookNames == {SubTaskName(n) : n \in DOMAIN notebook_tasks}

\* the task_* functions in the order the module defines them
StaticOrder == <<"config", "pull_wrds_futures", "pull_bbg_active_commodities",
                 "pull_bbg_commodities_basis", "pull_hkm", "format_hkm", "calc",
                 "run_notebooks", "generate_charts", "generate_pipeline_site">>

StaticNames == {StaticOrder[i] : i \in DOMAIN StaticOrder}

TaskNames == StaticNames \cup NotebookNames

\* the dictionaries doit collects from the module, for a value of BLOOMBERG_AVAILABLE
TaskGraph(BLOOMBERG_AVAILABLE) ==
    [t \in TaskNames |->
        CASE t = "config" -> task_config
          [] t = "pull_wrds_futures" -> task_pull_wrds_futures
          [] t = "pull_bbg_active_commodities" ->
                 task_pull_bbg_active_commodities(BLOOMBERG_AVAILABLE)
          [] t = "pull_bbg_commodities_basis" ->
                 task_pull_bbg_commodities_basis(BLOOMBERG_AVAILABLE)
          [] t = "pull_hkm" -> task_pull_hkm
          [] t = "format_hkm" -> task_format_hkm
          [] t = "calc" -> task_calc
          [] t = "run_notebooks" -> task_run_notebooks
          [] t = "generate_charts" -> task_generate_charts
          [] t = "generate_pipeline_site" -> task_generate_pipeline_site
          [] OTHER -> NotebookTask(CHOOSE n \in DOMAIN notebook_tasks : SubTaskName(n) = t)]

\* a task is gated when its declaration depends on BLOOMBERG_AVAILABLE
Gated(t) == TaskGraph(TRUE)[t] # TaskGraph(FALSE)[t]

\* every path a declaration names, and the inputs that exist in a checkout
AllTargets == UNION {TaskGraph(TRUE)[t].targets : t \in TaskNames}
AllFileDeps == UNION {TaskGraph(TRUE)[t].file_dep : t \in TaskNames}
Paths == AllTargets \cup AllFileDeps
SourceFiles == AllFileDeps \ (AllTargets \cup {RETURNS_PARQUET})

\* what a task's actions leave on disk when they all succeed
Produces(t) ==
    CASE t = "config" -> {DATA_DIR, OUTPUT_DIR}
      [] t = "calc" -> {RETURNS_PARQUET}
      [] t = "generate_charts" -> {CHART_HTML}
      [] t \in NotebookNames ->
             {NotebookHtml(CHOOSE n \in DOMAIN notebook_tasks : SubTaskName(n) = t)}
      [] OTHER -> {}

----------------------------------------------------------------------------
(* The scheduler: execution records, selection, order, staleness           *)

Terminal == {"skipped-up-to-date", "skipped-gated-off",
             "skipped-failed-dependency", "done", "failed"}

Blocking == {"failed", "skipped-failed-dependency"}

NoGraph == <<>>

\* the declaration order of the fully expanded graph: a generator's sub-tasks
\* follow their group
RECURSIVE SeqOfSet(_)
SeqOfSet(S) ==
    IF S = {} THEN <<>>
    ELSE LET x == CHOOSE y \in S : TRUE IN <<x>> \o SeqOfSet(S \ {x})

RECURSIVE Expand(_)
Expand(names) ==
    IF names = <<>> THEN <<>>
    ELSE LET h == Head(names) IN
         (IF h = "run_notebooks" THEN <<h>> \o SeqOfSet(NotebookNames) ELSE <<h>>)
             \o Expand(Tail(names))

DeclOrder == Expand(StaticOrder)

\* the tasks needed to satisfy the requested targets
RECURSIVE Closure(_, _)
Closure(g, S) ==
    LET more == S \cup UNION {g[t].task_dep : t \in S}
    IN IF more = S THEN S ELSE Closure(g, more)

\* the tasks `t` transitively depends on
Upstream(g, t) == Closure(g, {t}) \ {t}

\* topological order of `sel`, ties broken by declaration order
RECURSIVE TopoFrom(_, _, _)
TopoFrom(g, placed, left) ==
    IF left = {} THEN placed
    ELSE LET done == {placed[i] : i \in DOMAIN placed}
             ready == {i \in DOMAIN DeclOrder :
                          /\ DeclOrder[i] \in left
                          /\ (g[DeclOrder[i]].task_dep \cap (left \cup done)) \subseteq done}
             first == CHOOSE i \in ready : \A j \in ready : i <= j
         IN TopoFrom(g, Append(placed, DeclOrder[first]), left \ {DeclOrder[first]})

TopoOrder(g, sel) == TopoFrom(g, <<>>, sel)

\* staleness policy of a declaration
Policy(d) == IF d.targets = {} THEN "ALWAYS_RUN" ELSE "TARGET_TRACKED"

Oldest(fs, targets) ==
    CHOOSE m \in {fs[f] : f \in targets} : \A f \in targets : m <= fs[f]

Stale(d, fs) ==
    IF Policy(d) = "ALWAYS_RUN" THEN TRUE
    ELSE \/ \E f \in d.targets : fs[f] = 0
         \/ \E f \in d.file_dep : fs[f] > Oldest(fs, d.targets)

\* the selections of the command line: none (every task) or one task name
TargetSets == {TaskNames} \cup {{t} : t \in TaskNames}

Pending == [t \in TaskNames |-> "pending"]
NoneExecuted == [t \in TaskNames |-> 0]

\* a fresh checkout: the sources exist, nothing was produced yet
Checkout == [f \in Paths |-> IF f \in SourceFiles THEN 1 ELSE 0]

----------------------------------------------------------------------------
(* One invocation of doit                                                  *)

\* the check made again by whoever needs the answer, not once at import
LoadModuleLazily(typedSet) ==
    /\ phase \in {"load", "loaded"}
    /\ \E typed \in typedSet :
          LET r == _check_bloomberg_terminal(env_skip, env_open, typed) IN
          /\ gate' = Decision(r.ret)
          /\ prompts' = IF r.prompted THEN prompts + 1 ELSE prompts
          /\ response' = IF r.prompted THEN typed ELSE "<none>"
          /\ IF r.ret = "exit"
             THEN /\ phase' = "aborted"
                  /\ exitCode' = SystemExitStatus("Exiting.")
             ELSE /\ phase' = "loaded"
                  /\ exitCode' = exitCode
    /\ UNCHANGED <<env_skip, env_open, cmd, graph, selected, order, cursor, status,
                   executed, files, clock, run, prevFull, touched, checkVars>>

\* BLOOMBERG_AVAILABLE = _check_bloomberg_terminal(), at import of dodo.py
LoadModuleWith(typedSet) ==
    /\ phase = "load"
    /\ gate = "undecided"
    /\ \E typed \in typedSet :
          LET r == _check_bloomberg_terminal(env_skip, env_open, typed) IN
          /\ gate' = Decision(r.ret)
          /\ prompts' = IF r.prompted THEN prompts + 1 ELSE prompts
          /\ response' = IF r.prompted THEN typed ELSE "<none>"
          /\ IF r.ret = "exit"
             THEN /\ phase' = "aborted"
                  /\ exitCode' = SystemExitStatus("Exiting.")
             ELSE /\ phase' = "loaded"
                  /\ exitCode' = exitCode
    /\ UNCHANGED <<env_skip, env_open, cmd, graph, selected, order, cursor, status,
                   executed, files, clock, run, prevFull, touched, checkVars>>

\* doit calls every task_* function and collects the dictionaries
BuildGraph ==
    /\ phase = "loaded"
    /\ graph' = TaskGraph(gate = "available")
    /\ phase' = "built"
    /\ UNCHANGED <<gateVars, cmd, selected, order, cursor, status, executed, files,
                   clock, run, exitCode, prevFull, touched, checkVars>>

\* doit run [targets]
StartRun ==
    /\ phase = "built"
    /\ cmd = "run"
    /\ \E targets \in TargetSets :
          /\ selected' = Closure(graph, targets)
          /\ order' = TopoOrder(graph, Closure(graph, targets))
    /\ cursor' = 1
    /\ clock' = clock + 2
    /\ phase' = "running"
    /\ UNCHANGED <<gateVars, cmd, graph, status, executed, files, run,
                   exitCode, prevFull, touched, checkVars>>

Current == order[cursor]

\* the scheduler takes the next task of the order and decides what to do with it
BeginTask ==
    /\ phase = "running"
    /\ cursor <= Len(order)
    /\ status[Current] = "pending"
    /\ LET t == Current
           d == graph[t]
           verdict ==
               IF \E u \in d.task_dep : status[u] \in Blocking
                   THEN "skipped-failed-dependency"
               ELSE IF Gated(t) /\ gate = "unavailable" THEN "skipped-gated-off"
               ELSE IF ~Stale(d, files) THEN "skipped-up-to-date"
               ELSE IF d.actions = <<>> THEN "done"
               ELSE "running"
       IN /\ status' = [status EXCEPT ![t] = verdict]
          /\ cursor' = IF verdict = "running" THEN cursor ELSE cursor + 1
    /\ UNCHANGED <<gateVars, cmd, phase, graph, selected, order, executed, files,
                   clock, run, exitCode, prevFull, touched, checkVars>>

\* what the last action of task t leaves on disk
Written(t, fs, now) ==
    [f \in Paths |->
        IF f \in Produces(t) /\ ~(t = "config" /\ fs[f] # 0) THEN now ELSE fs[f]]

\* the next action of the running task succeeds
ActionSucceeds ==
    /\ phase = "running"
    /\ cursor <= Len(order)
    /\ status[Current] = "running"
    /\ LET t == Current
           n == executed[t] + 1
       IN /\ executed' = [executed EXCEPT ![t] = n]
          /\ IF n = Len(graph[t].actions)
             THEN /\ status' = [status EXCEPT ![t] = "done"]
                  /\ files' = Written(t, files, clock)
                  /\ cursor' = cursor + 1
             ELSE UNCHANGED <<status, files, cursor>>
    /\ UNCHANGED <<gateVars, cmd, phase, graph, selected, order, clock, run,
                   exitCode, prevFull, touched, checkVars>>

\* the next action of the running task fails: the task's other actions are dropped
ActionFails ==
    /\ phase = "running"
    /\ cursor <= Len(order)
    /\ status[Current] = "running"
    /\ executed' = [executed EXCEPT ![Current] = @ + 1]
    /\ status' = [status EXCEPT ![Current] = "failed"]
    /\ cursor' = cursor + 1
    /\ UNCHANGED <<gateVars, cmd, phase, graph, selected, order, files, clock, run,
                   exitCode, prevFull, touched, checkVars>>

\* every task of the order has its record: the run reports and exits
FinishRun ==
    /\ phase = "running"
    /\ cursor > Len(order)
    /\ phase' = "done"
    /\ exitCode' = IF \E t \in TaskNames : status[t] = "failed" THEN 1 ELSE 0
    /\ prevFull' = (selected = TaskNames /\ \A t \in TaskNames : status[t] # "failed")
    /\ touched' = FALSE
    /\ UNCHANGED <<gateVars, cmd, graph, selected, order, cursor, status, executed,
                   files, clock, run, checkVars>>

CleanAllTasks(g, fs) ==
    [f \in Paths |-> IF \E t \in TaskNames : f \in g[t].targets THEN 0 ELSE fs[f]]

\* doit clean: the targets of the tasks that declare "clean": True are removed
CleanTargets(g, fs) ==
    [f \in Paths |->
        IF \E t \in TaskNames : g[t].clean /\ f \in g[t].targets THEN 0 ELSE fs[f]]

DoClean ==
    /\ phase = "built"
    /\ cmd = "clean"
    /\ files' = CleanTargets(graph, files)
    /\ phase' = "done"
    /\ exitCode' = 0
    /\ prevFull' = FALSE
    /\ UNCHANGED <<gateVars, cmd, graph, selected, order, cursor, status, executed,
                   clock, run, touched, checkVars>>

\* between two invocations somebody edits the source of a notebook
TouchInput ==
    /\ phase = "done"
    /\ run < MaxRuns
    /\ ~touched
    /\ \E f \in notebook_files :
          files' = [files EXCEPT ![f] = clock + 1]
    /\ touched' = TRUE
    /\ UNCHANGED <<gateVars, cmd, phase, graph, selected, order, cursor, status,
                   executed, clock, run, exitCode, prevFull, checkVars>>

\* the next invocation starts from the disk the last one left
NewInvocation ==
    /\ phase \in {"done", "aborted"}
    /\ run < MaxRuns
    /\ run' = run + 1
    /\ cmd' \in {"run", "clean"}
    /\ phase' = "load"
    /\ gate' = "undecided"
    /\ prompts' = 0
    /\ response' = "<none>"
    /\ graph' = NoGraph
    /\ selected' = {}
    /\ order' = <<>>
    /\ cursor' = 1
    /\ status' = Pending
    /\ executed' = NoneExecuted
    /\ exitCode' = -1
    /\ UNCHANGED <<env_skip, env_open, files, clock, prevFull, touched, checkVars>>

\* the environment and the answers of the pipeline runs
RunEnvSkip == {"", "1"}
RunEnvOpen == {"", "True"}
RunResponses == {"", "y", "Quit "}

NoPanel == [rows |-> <<>>]
NoRequest == [tickers |-> {}]

InitRun ==
    /\ env_skip \in RunEnvSkip
    /\ env_open \in RunEnvOpen
    /\ cmd \in {"run", "clean"}
    /\ phase = "load"
    /\ gate = "undecided"
    /\ prompts = 0
    /\ response = "<none>"
    /\ graph = NoGraph
    /\ selected = {}
    /\ order = <<>>
    /\ cursor = 1
    /\ status = Pending
    /\ executed = NoneExecuted
    /\ files = Checkout
    /\ clock = 1
    /\ run = 1
    /\ exitCode = -1
    /\ prevFull = FALSE
    /\ touched = FALSE
    /\ panel = NoPanel
    /\ request = NoRequest
    /\ warnings = <<>>
    /\ pulled = NoPanel
    /\ persisted = NoPanel
    /\ registry = notebook_tasks

LoadModule == LoadModuleWith(RunResponses)

Init == InitRun

Next ==
    \/ LoadModule
    \/ BuildGraph
    \/ StartRun
    \/ BeginTask
    \/ ActionSucceeds
    \/ ActionFails
    \/ FinishRun
    \/ DoClean
    \/ TouchInput
    \/ NewInvocation

Spec == Init /\ [][Next]_vars

----------------------------------------------------------------------------
(* pull_bbg_commodities_basis.py: _warn_on_sparse_series                   *)

\* coverage_threshold = 0.7, as the fraction ThresholdNum / ThresholdDen
ThresholdNum == 7
ThresholdDen == 10

\* a date that pd.to_datetime(..., errors="coerce") could not parse
NaT == 0
Dates == 1..MaxDate

\* the two ways a frame names the column of a (ticker, field) pair
FlatName(pair) == pair[1] \o "_" \o pair[2]
MultiKey(pair) == pair

\* the requested pairs, tickers outside and fields inside as the loops go
PairSeq(tickers, fields) ==
    [i \in 1..(Len(tickers) * Len(fields)) |->
        <<tickers[((i - 1) \div Len(fields)) + 1], fields[((i - 1) % Len(fields)) + 1]>>]

\* the dates the check reads: the "index" column when the frame has one,
\* the row labels otherwise
HasIndexColumn(df) == ~df.is_multi /\ "index" \in df.columns

date_values(df) ==
    [i \in 1..Len(df.rows) |->
        IF HasIndexColumn(df) THEN df.rows[i].index_col ELSE df.rows[i].label]

in_range(df, start_ts, end_ts) ==
    [i \in 1..Len(df.rows) |->
        /\ date_values(df)[i] # NaT
        /\ date_values(df)[i] >= start_ts
        /\ date_values(df)[i] <= end_ts]

Count(mask) == Cardinality({i \in DOMAIN mask : mask[i]})

\* the label under which the check looks a pair up in this frame
ColumnOf(df, pair) == IF df.is_multi THEN MultiKey(pair) ELSE FlatName(pair)

Warning(kind, pair) == [kind |-> kind, ticker |-> pair[1], field |-> pair[2]]

\* the per-pair test with a coverage equal to the threshold taken for low
PairWarningInclusive(df, mask, pair) ==
    IF ColumnOf(df, pair) \notin df.columns THEN <<Warning("missing", pair)>>
    ELSE LET total == Count(mask)
             non_null == Cardinality({i \in DOMAIN mask :
                             mask[i] /\ df.rows[i].cells[ColumnOf(df, pair)] # "NaN"})
         IN IF (total = 0) \/ (non_null * ThresholdDen <= ThresholdNum * total)
            THEN <<Warning("low-coverage", pair)>>
            ELSE <<>>

\* the warning, if any, of one pair of a frame that has rows in range
PairWarning(df, mask, pair) ==
    IF ColumnOf(df, pair) \notin df.columns THEN <<Warning("missing", pair)>>
    ELSE LET total == Count(mask)
             non_null == Cardinality({i \in DOMAIN mask :
                             mask[i] /\ df.rows[i].cells[ColumnOf(df, pair)] # "NaN"})
         IN IF (total = 0) \/ (non_null * ThresholdDen < ThresholdNum * total)
            THEN <<Warning("low-coverage", pair)>>
            ELSE <<>>

RECURSIVE Concat(_)
Concat(ss) == IF ss = <<>> THEN <<>> ELSE Head(ss) \o Concat(Tail(ss))

\* the presence of the column is looked at before the date range
WarnPresenceFirst(df, tickers, fields, start_ts, end_ts) ==
    LET pairs == PairSeq(tickers, fields)
        mask == in_range(df, start_ts, end_ts)
    IN IF Len(df.rows) = 0
       THEN [i \in DOMAIN pairs |-> Warning("empty", pairs[i])]
       ELSE Concat([i \in DOMAIN pairs |->
                IF ColumnOf(df, pairs[i]) \notin df.columns
                    THEN <<Warning("missing", pairs[i])>>
                ELSE IF Count(mask) = 0
                    THEN <<Warning("no-rows-in-range", pairs[i])>>
                ELSE PairWarning(df, mask, pairs[i])])

\* the validator without the short-circuit on a frame of zero rows
WarnWithoutEmptyCheck(df, tickers, fields, start_ts, end_ts) ==
    LET pairs == PairSeq(tickers, fields)
        mask == in_range(df, start_ts, end_ts)
    IN IF Count(mask) = 0
       THEN [i \in DOMAIN pairs |-> Warning("no-rows-in-range", pairs[i])]
       ELSE Concat([i \in DOMAIN pairs |-> PairWarning(df, mask, pairs[i])])

\* the warnings _warn_on_sparse_series emits, in the order it emits them
_warn_on_sparse_series(df, tickers, fields, start_ts, end_ts) ==
    LET pairs == PairSeq(tickers, fields)
        mask == in_range(df, start_ts, end_ts)
    IN IF Len(df.rows) = 0
       THEN [i \in DOMAIN pairs |-> Warning("empty", pairs[i])]
       ELSE IF Count(mask) = 0
       THEN [i \in DOMAIN pairs |-> Warning("no-rows-in-range", pairs[i])]
       ELSE Concat([i \in DOMAIN pairs |-> PairWarning(df, mask, pairs[i])])

\* the report a warning stands for
StatusOf(kind) ==
    CASE kind = "empty" -> "missing"
      [] kind = "missing" -> "missing"
      [] kind = "no-rows-in-range" -> "out-of-range"
      [] kind = "low-coverage" -> "low-coverage"

\* the reports of a pair: one per warning about it, "ok" when there is none
Reports(ws, pair) ==
    LET mine == {i \in DOMAIN ws : ws[i].ticker = pair[1] /\ ws[i].field = pair[2]}
    IN IF mine = {} THEN {"ok"} ELSE {StatusOf(ws[i].kind) : i \in mine}

\* the frames of the model: at most MaxRows rows, the columns of some of the
\* requested pairs under one naming, dates as an "index" column or as row labels
Tickers == <<"CO1 Comdty", "CL1 Comdty">>
Fields == <<"PX_LAST">>
RequestedPairs == {PairSeq(Tickers, Fields)[i] : i \in DOMAIN PairSeq(Tickers, Fields)}

\* a row: its label, its value in the "index" column (NaT when the frame has no
\* such column) and its values in the data columns
RowsOver(cols, long) ==
    LET Row == {[label |-> l, index_col |-> d, cells |-> c] :
                   l \in (IF long THEN {NaT} ELSE Dates \cup {NaT}),
                   d \in (IF long THEN Dates \cup {NaT} ELSE {NaT}),
                   c \in [cols -> {"NaN", "x"}]}
    IN UNION {[1..n -> Row] : n \in 0..MaxRows}

FlatPanels ==
    UNION {
        {[is_multi |-> FALSE, columns |-> cols \cup {"index"}, rows |-> r] :
            r \in RowsOver(cols, TRUE)}
        \cup {[is_multi |-> FALSE, columns |-> cols, rows |-> r] :
            r \in RowsOver(cols, FALSE)}
        : cols \in SUBSET {FlatName(p) : p \in RequestedPairs}}

MultiPanels ==
    UNION {
        {[is_multi |-> TRUE, columns |-> cols, rows |-> r] : r \in RowsOver(cols, FALSE)}
        : cols \in SUBSET {MultiKey(p) : p \in RequestedPairs}}

Requests ==
    {[tickers |-> Tickers, fields |-> Fields, start_date |-> a, end_date |-> b] :
        a \in Dates, b \in Dates}

InitCheck ==
    /\ env_skip = ""
    /\ env_open = ""
    /\ cmd = "check"
    /\ phase = "called"
    /\ gate = "undecided"
    /\ prompts = 0
    /\ response = "<none>"
    /\ graph = NoGraph
    /\ selected = {}
    /\ order = <<>>
    /\ cursor = 1
    /\ status = Pending
    /\ executed = NoneExecuted
    /\ files = Checkout
    /\ clock = 1
    /\ run = 1
    /\ exitCode = -1
    /\ prevFull = FALSE
    /\ touched = FALSE
    /\ (panel \in FlatPanels \/ panel \in MultiPanels)
    /\ request \in Requests
    /\ warnings = <<>>
    /\ pulled = NoPanel
    /\ persisted = NoPanel
    /\ registry = notebook_tasks

\* warnings.warn under a filter that turns a RuntimeWarning into an exception
WarnRaisesAsError(ws) == ws # <<>>

\* does a warnings.warn(..., RuntimeWarning) of the check raise: the module
\* installs no warning filter, the warning is printed and the call returns
WarnRaises(ws) == FALSE

\* one call of _warn_on_sparse_series(df, tickers, fields, start_date, end_date)
Validate ==
    /\ phase = "called"
    /\ warnings' = _warn_on_sparse_series(panel, request.tickers, request.fields,
                                          request.start_date, request.end_date)
    /\ phase' = IF WarnRaises(warnings') THEN "raised" ELSE "returned"
    /\ UNCHANGED <<gateVars, cmd, graph, selected, order, cursor, status, executed,
                   files, clock, run, exitCode, prevFull, touched, panel, request,
                   pulled, persisted, registry>>

NextCheck == Validate

SpecCheck == InitCheck /\ [][NextCheck]_vars

----------------------------------------------------------------------------
(* Claims about the coverage check (specification SpecCheck)               *)

\* the rows of the frame whose date lies in [start_date, end_date]
RowsInRange ==
    {i \in 1..Len(panel.rows) :
        LET d == IF ~panel.is_multi /\ "index" \in panel.columns
                 THEN panel.rows[i].index_col ELSE panel.rows[i].label
        IN d \in request.start_date..request.end_date /\ d # NaT}

\* no column of the frame carries the pair, under either naming
Absent(pair) ==
    IF panel.is_multi THEN pair \notin panel.columns
    ELSE (pair[1] \o "_" \o pair[2]) \notin panel.columns

\* C10 (as claimed): for a frame with rows, column presence is looked at before
\* the date range: an absent pair is reported missing whatever the rows'
\* dates, and out-of-range is reported only for present pairs with no row in
\* range.
C10_PresenceBeforeRange ==
    (phase = "returned" /\ Len(panel.rows) >= 1) =>
        \A pair \in RequestedPairs :
            /\ Absent(pair) => Reports(warnings, pair) = {"missing"}
            /\ "out-of-range" \in Reports(warnings, pair) =>
                   (~Absent(pair) /\ RowsInRange = {})

\* C10 (amended): for a frame with rows, the date range is looked at before
\* column presence: with no row in range every requested pair is reported
\* out-of-range, present or absent; with a row in range an absent pair is
\* reported missing and no pair is reported out-of-range.
C10_RangeBeforePresence ==
    (phase = "returned" /\ Len(panel.rows) >= 1) =>
        \A pair \in RequestedPairs :
            IF RowsInRange = {}
            THEN Reports(warnings, pair) = {"out-of-range"}
            ELSE /\ Absent(pair) => Reports(warnings, pair) = {"missing"}
                 /\ "out-of-range" \notin Reports(warnings, pair)

C10_Witness ==
    /\ phase = "returned"
    /\ Len(panel.rows) = 2
    /\ RowsInRange = {}
    /\ Absent(<<"CL1 Comdty", "PX_LAST">>)
    /\ ~Absent(<<"CO1 Comdty", "PX_LAST">>)
    /\ \A pair \in RequestedPairs : Reports(warnings, pair) = {"out-of-range"}

C10_WitnessMissing ==
    /\ phase = "returned"
    /\ RowsInRange # {}
    /\ Absent(<<"CL1 Comdty", "PX_LAST">>)
    /\ Reports(warnings, <<"CL1 Comdty", "PX_LAST">>) = {"missing"}
    /\ Reports(warnings, <<"CO1 Comdty", "PX_LAST">>) = {"ok"}

\* the pairs of the request
Requested ==
    {PairSeq(request.tickers, request.fields)[i] :
        i \in DOMAIN PairSeq(request.tickers, request.fields)}

\* the warnings emitted about one pair
WarningsOf(pair) ==
    {i \in DOMAIN warnings :
        warnings[i].ticker = pair[1] /\ warnings[i].field = pair[2]}

\* C12: on a panel of zero rows every requested pair is reported missing,
\* once, and nothing is reported out-of-range or low-coverage, whatever the
\* columns of the panel and the date range.
C12_EmptyPanelAllMissing ==
    (phase = "returned" /\ Len(panel.rows) = 0) =>
        /\ Len(warnings) = Cardinality(Requested)
        /\ \A pair \in Requested :
               /\ Cardinality(WarningsOf(pair)) = 1
               /\ Reports(warnings, pair) = {"missing"}
        /\ \A i \in DOMAIN warnings :
               StatusOf(warnings[i].kind) \notin {"out-of-range", "low-coverage"}

C12_Witness ==
    /\ phase = "returned"
    /\ Len(panel.rows) = 0
    /\ \A pair \in Requested : ~Absent(pair)
    /\ request.start_date > request.end_date
    /\ Len(warnings) = Cardinality(Requested)
    /\ \A pair \in Requested : Reports(warnings, pair) = {"missing"}

C12_WitnessNoColumns ==
    /\ phase = "returned"
    /\ Len(panel.rows) = 0
    /\ \A pair \in Requested : Absent(pair)
    /\ request.start_date <= request.end_date
    /\ \A pair \in Requested : Reports(warnings, pair) = {"missing"}

----------------------------------------------------------------------------
(* The coverage check on wide frames: ten requested pairs, of which at     *)
(* most three columns are not fully populated (specification SpecScenario) *)

ScenarioRows == 10      \* rows in range of a wide frame

\* the first ten tickers of pull_commodity_futures
ScenarioTickers == <<"CO1 Comdty", "CO2 Comdty", "CO3 Comdty", "QS1 Comdty",
                     "QS2 Comdty", "QS3 Comdty", "CL1 Comdty", "CL2 Comdty",
                     "CL3 Comdty", "RB1 Comdty">>

ScenarioPairs ==
    {PairSeq(ScenarioTickers, Fields)[i] : i \in DOMAIN PairSeq(ScenarioTickers, Fields)}

\* how many of the rows in range a column fills: none, half, the threshold's
\* share, all; -1 for a column the frame does not have
FillLevels ==
    {-1, 0, ScenarioRows \div 2, (ThresholdNum * ScenarioRows) \div ThresholdDen,
     ScenarioRows}

\* every pair full but the three of S, which take any level
Fills ==
    UNION {{[p \in ScenarioPairs |-> IF p \in S THEN g[p] ELSE ScenarioRows] :
               g \in [S -> FillLevels]} :
           S \in {T \in SUBSET ScenarioPairs : Cardinality(T) = 3}}

\* the frame of a fill under one naming: the rows in range, then possibly one
\* row after end_date whose cells all hold `extra`
WideFrame(fill, multi, long, extra) ==
    LET Name(p) == ColumnOf([is_multi |-> multi], p)
        have == {p \in ScenarioPairs : fill[p] # -1}
        cols == {Name(p) : p \in have}
        inside == [i \in 1..ScenarioRows |->
                     [label |-> IF long THEN NaT ELSE ((i - 1) % MaxDate) + 1,
                      index_col |-> IF long THEN ((i - 1) % MaxDate) + 1 ELSE NaT,
                      cells |-> [c \in cols |->
                                   LET p == CHOOSE q \in have : Name(q) = c
                                   IN IF i <= fill[p] THEN "x" ELSE "NaN"]]]
        after == [label |-> IF long THEN NaT ELSE MaxDate + 1,
                  index_col |-> IF long THEN MaxDate + 1 ELSE NaT,
                  cells |-> [c \in cols |-> extra]]
    IN [is_multi |-> multi,
        columns |-> IF long THEN cols \cup {"index"} ELSE cols,
        rows |-> IF extra = "none" THEN inside ELSE Append(inside, after)]

InitScenario ==
    /\ env_skip = ""
    /\ env_open = ""
    /\ cmd = "check"
    /\ phase = "called"
    /\ gate = "undecided"
    /\ prompts = 0
    /\ response = "<none>"
    /\ graph = NoGraph
    /\ selected = {}
    /\ order = <<>>
    /\ cursor = 1
    /\ status = Pending
    /\ executed = NoneExecuted
    /\ files = Checkout
    /\ clock = 1
    /\ run = 1
    /\ exitCode = -1
    /\ prevFull = FALSE
    /\ touched = FALSE
    /\ \E fill \in Fills, extra \in {"none", "x"} :
          \/ panel = WideFrame(fill, FALSE, TRUE, extra)
          \/ panel = WideFrame(fill, FALSE, FALSE, extra)
          \/ panel = WideFrame(fill, TRUE, FALSE, extra)
    /\ request = [tickers |-> ScenarioTickers, fields |-> Fields,
                  start_date |-> 1, end_date |-> MaxDate]
    /\ warnings = <<>>
    /\ pulled = NoPanel
    /\ persisted = NoPanel
    /\ registry = notebook_tasks

SpecScenario == InitScenario /\ [][NextCheck]_vars

\* the non-null cells of a present pair among the rows in range
NonNullInRange(pair) ==
    LET c == IF panel.is_multi THEN pair ELSE pair[1] \o "_" \o pair[2]
    IN Cardinality({i \in RowsInRange : panel.rows[i].cells[c] # "NaN"})

WithStatus(st) == {pair \in Requested : Reports(warnings, pair) = {st}}

\* C11: a present pair of a frame with a row in range is reported low-coverage
\* exactly when non-null / in-range is below 0.7 and ok otherwise (0.7 itself
\* is ok); ten pairs of which seven are full, two exactly half full and one
\* absent give 1 missing, 2 low-coverage and 7 ok.
C11_CoverageThreshold ==
    (phase = "returned" /\ RowsInRange # {}) =>
        /\ \A pair \in Requested :
               ~Absent(pair) =>
                   Reports(warnings, pair) =
                       IF 10 * NonNullInRange(pair) < 7 * Cardinality(RowsInRange)
                       THEN {"low-coverage"} ELSE {"ok"}
        /\ (/\ Cardinality(Requested) = 10
            /\ Cardinality({p \in Requested : Absent(p)}) = 1
            /\ Cardinality({p \in Requested : ~Absent(p) /\
                   NonNullInRange(p) = Cardinality(RowsInRange)}) = 7
            /\ Cardinality({p \in Requested : ~Absent(p) /\
                   2 * NonNullInRange(p) = Cardinality(RowsInRange)}) = 2)
           => /\ Cardinality(WithStatus("missing")) = 1
              /\ Cardinality(WithStatus("low-coverage")) = 2
              /\ Cardinality(WithStatus("ok")) = 7
              /\ Len(warnings) = 3

C11_Witness ==
    /\ phase = "returned"
    /\ Len(panel.rows) > Cardinality(RowsInRange)
    /\ Cardinality(RowsInRange) = ScenarioRows
    /\ Cardinality({p \in Requested : Absent(p)}) = 1
    /\ Cardinality({p \in Requested : ~Absent(p) /\
           NonNullInRange(p) = Cardinality(RowsInRange)}) = 7
    /\ Cardinality({p \in Requested : ~Absent(p) /\
           2 * NonNullInRange(p) = Cardinality(RowsInRange)}) = 2
    /\ Cardinality(WithStatus("missing")) = 1
    /\ Cardinality(WithStatus("low-coverage")) = 2
    /\ Cardinality(WithStatus("ok")) = 7

C11_WitnessAtThreshold ==
    /\ phase = "returned"
    /\ \E p \in Requested :
          /\ ~Absent(p)
          /\ 10 * NonNullInRange(p) = 7 * Cardinality(RowsInRange)
          /\ Reports(warnings, p) = {"ok"}

----------------------------------------------------------------------------
(* The pull script as the action of task pull_bbg_commodities_basis:       *)
(* pull_commodity_futures and the to_parquet of __main__                   *)
(* (specification SpecPull)                                                *)

BASIS == "pull_bbg_commodities_basis"

\* df.empty: no rows or no columns
Empty(df) == Len(df.rows) = 0 \/ df.columns = {}

\* a non-empty frame with two-level columns gets flat names and its index as
\* the "index" column
Normalize(df) ==
    IF ~Empty(df) /\ df.is_multi
    THEN LET cols == {FlatName(k) : k \in df.columns}
         IN [is_multi |-> FALSE,
             columns |-> cols \cup {"index"},
             rows |-> [i \in DOMAIN df.rows |->
                         [label |-> NaT,
                          index_col |-> df.rows[i].label,
                          cells |-> [c \in cols |->
                                       df.rows[i].cells[
                                           CHOOSE k \in df.columns : FlatName(k) = c]]]]]
    ELSE df

\* the script asks for one range ending at END_DATE
PullRequests ==
    {[tickers |-> Tickers, fields |-> Fields, start_date |-> a, end_date |-> MaxDate] :
        a \in Dates}

\* the scheduler has started the task's action and blp.bdh has returned
InitPull ==
    /\ env_skip = ""
    /\ env_open = "True"
    /\ cmd = "pull"
    /\ phase = "bdh"
    /\ gate = "available"
    /\ prompts = 0
    /\ response = "<none>"
    /\ graph = TaskGraph(TRUE)
    /\ selected = {"config", BASIS}
    /\ order = <<"config", BASIS>>
    /\ cursor = 2
    /\ status = [Pending EXCEPT !["config"] = "done", ![BASIS] = "running"]
    /\ executed = NoneExecuted
    /\ files = Checkout
    /\ clock = 1
    /\ run = 1
    /\ exitCode = -1
    /\ prevFull = FALSE
    /\ touched = FALSE
    /\ (pulled \in FlatPanels \/ pulled \in MultiPanels)
    /\ panel = pulled
    /\ request \in PullRequests
    /\ warnings = <<>>
    /\ persisted = NoPanel
    /\ registry = notebook_tasks

\* lines 162-164 of pull_commodity_futures, up to the call of the check
Flatten ==
    /\ cmd = "pull"
    /\ phase = "bdh"
    /\ panel' = Normalize(panel)
    /\ phase' = "called"
    /\ UNCHANGED <<gateVars, cmd, graph, selected, order, cursor, status, executed,
                   files, clock, run, exitCode, prevFull, touched, request,
                   warnings, pulled, persisted, registry>>

\* pull_commodity_futures returns df and __main__ writes it
Persist ==
    /\ cmd = "pull"
    /\ phase = "returned"
    /\ persisted' = panel
    /\ phase' = "saved"
    /\ UNCHANGED <<gateVars, cmd, graph, selected, order, cursor, status, executed,
                   files, clock, run, exitCode, prevFull, touched, panel, request,
                   warnings, pulled, registry>>

\* the process ends, with status 1 on an uncaught exception, and the scheduler
\* records the task
ScriptExit ==
    /\ cmd = "pull"
    /\ phase \in {"saved", "raised"}
    /\ exitCode' = IF phase = "saved" THEN 0 ELSE 1
    /\ executed' = [executed EXCEPT ![BASIS] = @ + 1]
    /\ status' = [status EXCEPT ![BASIS] = IF phase = "saved" THEN "done" ELSE "failed"]
    /\ cursor' = cursor + 1
    /\ phase' = "exited"
    /\ UNCHANGED <<gateVars, cmd, graph, selected, order, files, clock, run,
                   prevFull, touched, checkVars>>

NextPull == Flatten \/ Validate \/ Persist \/ ScriptExit

SpecPull == InitPull /\ [][NextPull]_vars

\* the reports of the check, over the requested pairs
Outcomes == UNION {Reports(warnings, pair) : pair \in Requested}

\* C13: whatever the check reports, it returns, the frame it was handed is
\* unchanged, the pull returns and writes that frame, and the task ends done,
\* so that no task below it is held back.
C13_ValidationAdvisory ==
    /\ phase \in {"called", "returned", "saved", "exited"} => panel = Normalize(pulled)
    /\ phase # "raised"
    /\ phase \in {"saved", "exited"} => persisted = Normalize(pulled)
    /\ phase = "exited" =>
           /\ exitCode = 0
           /\ status[BASIS] = "done"
           /\ \A t \in TaskNames \ {BASIS} : status[t] \notin Blocking

C13_Witness ==
    /\ phase = "exited"
    /\ Outcomes = {"missing", "low-coverage"}
    /\ pulled.is_multi
    /\ ~panel.is_multi
    /\ persisted = panel
    /\ status[BASIS] = "done"

C13_WitnessOutOfRange ==
    /\ phase = "exited"
    /\ Outcomes = {"out-of-range"}
    /\ Len(persisted.rows) > 0
    /\ status[BASIS] = "done"

C13_WitnessOk ==
    /\ phase = "exited"
    /\ Outcomes = {"ok"}
    /\ persisted = panel
    /\ status[BASIS] = "done"

----------------------------------------------------------------------------
(* The expansion of task_run_notebooks over a registry of any size         *)
(* (specification SpecExpand)                                              *)

MaxNotebooks == 3       \* most items a registry holds

NotebookCandidates == <<"summary_commodities_ipynb", "basis_ipynb",
                        "returns_ipynb", "hkm_ipynb">>

\* the registries: any of the candidate names, each with its source file
Registries ==
    {[n \in S |-> [path |-> "./src/" \o n \o ".py", file_dep |-> {}, targets |-> {}]] :
        S \in SUBSET {NotebookCandidates[i] : i \in 1..MaxNotebooks}}

ItemsOf(g) == DOMAIN g \ {"run_notebooks"}

FilesOf(g) == UNION {g[t].file_dep \cup g[t].targets : t \in ItemsOf(g)}

InitExpand ==
    /\ env_skip = ""
    /\ env_open = ""
    /\ cmd = "run"
    /\ phase = "load"
    /\ gate = "undecided"
    /\ prompts = 0
    /\ response = "<none>"
    /\ graph = NoGraph
    /\ selected = {}
    /\ order = <<>>
    /\ cursor = 1
    /\ status = Pending
    /\ executed = NoneExecuted
    /\ files = Checkout
    /\ clock = 1
    /\ run = 1
    /\ exitCode = -1
    /\ prevFull = FALSE
    /\ touched = FALSE
    /\ panel = NoPanel
    /\ request = NoRequest
    /\ warnings = <<>>
    /\ pulled = NoPanel
    /\ persisted = NoPanel
    /\ registry \in Registries

\* graph-build time: doit calls the generator; the sources exist, no output yet
CollectItems ==
    /\ phase = "load"
    /\ graph' = CollectNotebooks(registry)
    /\ status' = [t \in DOMAIN CollectNotebooks(registry) |-> "pending"]
    /\ files' = [f \in FilesOf(CollectNotebooks(registry)) |->
                    IF \E n \in DOMAIN registry : f = registry[n].path THEN 1 ELSE 0]
    /\ phase' = "built"
    /\ UNCHANGED <<gateVars, cmd, selected, order, cursor, executed, clock, run,
                   exitCode, prevFull, touched, checkVars>>

\* the scheduler judges one item, calc being done: a stale item runs and
\* writes its targets, another is skipped and nothing is written
JudgeItem ==
    /\ phase = "built"
    /\ \E t \in ItemsOf(graph) :
          /\ selected' = {t}
          /\ files' = IF Stale(graph[t], files)
                      THEN [f \in DOMAIN files |->
                               IF f \in graph[t].targets THEN clock ELSE files[f]]
                      ELSE files
    /\ UNCHANGED <<gateVars, cmd, phase, graph, order, cursor, status, executed,
                   clock, run, exitCode, prevFull, touched, checkVars>>

\* an item's source file is edited
EditSource ==
    /\ phase = "built"
    /\ run <= MaxRuns
    /\ \E n \in DOMAIN registry :
          files' = [files EXCEPT ![registry[n].path] = clock + 1]
    /\ clock' = clock + 1
    /\ run' = run + 1
    /\ selected' = {}
    /\ touched' = TRUE
    /\ UNCHANGED <<gateVars, cmd, phase, graph, order, cursor, status, executed,
                   exitCode, prevFull, checkVars>>

NextExpand == CollectItems \/ JudgeItem \/ EditSource

SpecExpand == InitExpand /\ [][NextExpand]_vars

C14_ExpansionInvariant ==
    phase = "built" =>
        /\ Cardinality(ItemsOf(graph)) = Cardinality(DOMAIN registry)
        /\ ItemsOf(graph) = {SubTaskName(n) : n \in DOMAIN registry}
        /\ graph["run_notebooks"].task_dep = ItemsOf(graph)
        /\ \A n \in DOMAIN registry :
               LET d == graph[SubTaskName(n)]
               IN /\ d.task_dep = {"calc"}
                  /\ d.file_dep = {registry[n].path}
                  /\ d.targets = {NotebookHtml(n)}
                  /\ Policy(d) = "TARGET_TRACKED"
        /\ \A t \in ItemsOf(graph) : \A u \in ItemsOf(graph) \ {t} :
               /\ graph[t].targets \cap graph[u].targets = {}
               /\ graph[t].file_dep \cap graph[u].file_dep = {}

\* judging or running one item, or editing its source, leaves every other
\* item as stale or as fresh as it was
C14_IndependentStep ==
    phase = "built" =>
        /\ \A t \in ItemsOf(graph) : \A u \in ItemsOf(graph) \ {t} :
               selected' = {t} =>
                   Stale(graph'[u], files') = Stale(graph[u], files)
        /\ \A n \in DOMAIN registry : \A u \in ItemsOf(graph) \ {SubTaskName(n)} :
               files'[registry[n].path] # files[registry[n].path] =>
                   Stale(graph'[u], files') = Stale(graph[u], files)

\* C14: a registry of N items expands at graph-build time into N sub-tasks
\* with distinct names, each depending on calc with its own source file as
\* file-dependency and its own HTML output as target, and the staleness of an
\* item does not move with what happens to another item.
C14_RegistryExpansion == []C14_ExpansionInvariant /\ [][C14_IndependentStep]_vars

C14_Witness ==
    /\ phase = "built"
    /\ Cardinality(DOMAIN registry) = MaxNotebooks
    /\ \E t \in ItemsOf(graph) : \E u \in ItemsOf(graph) \ {t} :
          /\ selected = {t}
          /\ ~Stale(graph[t], files)
          /\ Stale(graph[u], files)
          /\ \E f \in graph[u].targets : files[f] # 0

----------------------------------------------------------------------------
(* Claims about the pipeline runs (specification Spec)                     *)

GatedPulls == {"pull_bbg_active_commodities", "pull_bbg_commodities_basis"}

Started(t) == status[t] \in {"running", "done", "failed"} \/ executed[t] > 0

NothingRan == status = Pending /\ executed = NoneExecuted

\* C3: when the gate resolves to abort the invocation ends with a non-zero exit
\* code and no task leaves pending: no action of any task, config included, runs.
C3_AbortRunsNothing ==
    gate = "abort" =>
        /\ phase = "aborted"
        /\ exitCode > 0
        /\ graph = NoGraph
        /\ NothingRan

C3_Witness ==
    /\ gate = "abort"
    /\ phase = "aborted"
    /\ prompts = 1
    /\ run = 2
    /\ files[DATA_DIR] # 0

\* C4: within an invocation the gate is decided at most once, before the first
\* action of any task; once decided it keeps its value, and both gated tasks are
\* declared from that one value.
C4_GateInvariant ==
    /\ prompts <= 1
    /\ (\E t \in TaskNames : status[t] # "pending" \/ executed[t] > 0)
           => gate \in {"available", "unavailable"}
    /\ graph # NoGraph =>
           /\ gate \in {"available", "unavailable"}
           /\ \A t \in GatedPulls :
                  (graph[t].actions = <<>>) <=> (gate = "unavailable")

C4_GateStep ==
    (gate # "undecided" /\ run' = run) => (gate' = gate /\ prompts' = prompts)

C4_DecidedOnce == [](C4_GateInvariant) /\ [][C4_GateStep]_vars

C4_Witness ==
    /\ phase = "running"
    /\ prompts = 1
    /\ gate = "available"
    /\ executed["pull_bbg_commodities_basis"] = 1
    /\ executed["pull_bbg_active_commodities"] = 1

\* C5: with the gate unavailable the two gated pulls execute no action and do
\* not fail; calc is not skipped because of them; a run in which no task fails
\* exits with success.
C5_GatedOffDegrades ==
    gate = "unavailable" =>
        /\ \A t \in GatedPulls : executed[t] = 0 /\ status[t] # "failed"
        /\ (phase = "done" /\ cmd = "run" /\ "calc" \in selected
               /\ status["format_hkm"] \notin Blocking)
              => /\ status["pull_bbg_commodities_basis"] = "skipped-gated-off"
                 /\ status["calc"] \in {"done", "failed"}
                 /\ executed["calc"] = 1
        /\ (phase = "done" /\ cmd = "run"
               /\ \A t \in TaskNames : status[t] # "failed")
              => exitCode = 0

C5_Witness ==
    /\ gate = "unavailable"
    /\ phase = "done"
    /\ cmd = "run"
    /\ selected = TaskNames
    /\ \A t \in GatedPulls : status[t] = "skipped-gated-off"
    /\ status["calc"] = "done"
    /\ exitCode = 0

\* C6: for every requested target set no task starts before each task it
\* depends on is terminal; calc not before pull_bbg_commodities_basis and
\* format_hkm, generate_pipeline_site not before every run_notebooks item and
\* generate_charts.
C6_DependenciesFirst ==
    /\ \A t \in TaskNames :
           (Started(t) /\ graph # NoGraph) =>
               \A u \in graph[t].task_dep : status[u] \in Terminal
    /\ Started("calc") =>
           /\ status["pull_bbg_commodities_basis"] \in Terminal
           /\ status["format_hkm"] \in Terminal
           /\ status["pull_hkm"] \in Terminal
           /\ status["config"] \in Terminal
    /\ Started("generate_pipeline_site") =>
           /\ \A n \in NotebookNames : status[n] \in Terminal
           /\ status["generate_charts"] \in Terminal
           /\ status["calc"] \in Terminal
    /\ \A t \in NotebookNames \cup {"generate_charts"} :
           Started(t) => status["calc"] \in Terminal
    /\ \A t \in TaskNames \ {"config"} : Started(t) => status["config"] \in Terminal

C6_Witness ==
    /\ status["generate_pipeline_site"] = "running"
    /\ selected = {"generate_pipeline_site"} \cup Upstream(graph, "generate_pipeline_site")
    /\ status["pull_wrds_futures"] = "pending"

\* C7: a failing action ends its task failed and the task's other actions are
\* not executed; every transitive dependent ends skipped-failed-dependency with
\* no action executed; every other selected task reaches a terminal state of its
\* own (pull_hkm failing skips format_hkm, calc and what follows calc, while the
\* other pulls run).
BelowHkm == {"format_hkm", "calc", "run_notebooks", "generate_charts",
             "generate_pipeline_site"} \cup NotebookNames

OtherPulls == {"pull_wrds_futures", "pull_bbg_active_commodities",
               "pull_bbg_commodities_basis"}

C7_FailureInvariant ==
    /\ \A t \in TaskNames :
           status[t] = "failed" => executed[t] \in 1..Len(graph[t].actions)
    /\ \A t \in TaskNames :
           status[t] = "skipped-failed-dependency" => executed[t] = 0
    /\ (phase = "done" /\ cmd = "run") =>
           \A t \in selected :
               IF \E u \in Upstream(graph, t) : status[u] = "failed"
               THEN status[t] = "skipped-failed-dependency"
               ELSE status[t] \in Terminal \ {"skipped-failed-dependency"}
    /\ (phase = "done" /\ cmd = "run" /\ status["pull_hkm"] = "failed") =>
           /\ \A t \in BelowHkm \cap selected :
                  status[t] = "skipped-failed-dependency" /\ executed[t] = 0
           /\ \A t \in OtherPulls \cap selected :
                  status[t] \in {"done", "failed", "skipped-gated-off"}

C7_FailureStep ==
    \A t \in TaskNames :
        (status[t] \in Blocking /\ run' = run) =>
            (status'[t] = status[t] /\ executed'[t] = executed[t])

C7_FailurePropagates == [](C7_FailureInvariant) /\ [][C7_FailureStep]_vars

C7_Witness ==
    \E n \in NotebookNames :
        /\ phase = "done"
        /\ selected = TaskNames
        /\ status[n] = "failed"
        /\ executed[n] = 2
        /\ status["run_notebooks"] = "skipped-failed-dependency"
        /\ status["generate_pipeline_site"] = "skipped-failed-dependency"
        /\ status["generate_charts"] = "done"
        /\ exitCode = 1

C7_WitnessHkm ==
    /\ phase = "done"
    /\ selected = TaskNames
    /\ status["pull_hkm"] = "failed"
    /\ status["calc"] = "skipped-failed-dependency"
    /\ status["generate_pipeline_site"] = "skipped-failed-dependency"
    /\ status["pull_wrds_futures"] = "done"
    /\ status["pull_bbg_commodities_basis"] = "done"

\* C8 (as claimed): a second complete run that follows a complete successful run,
\* with no input changed in between, executes no action and leaves every task
\* with actions skipped-up-to-date.
C8_SecondRunExecutesNothing ==
    (cmd = "run" /\ phase = "running" /\ prevFull /\ ~touched
        /\ selected = TaskNames) =>
        \A t \in TaskNames :
            /\ executed[t] = 0
            /\ status[t] \in {"pending", "skipped-up-to-date", "skipped-gated-off", "done"}
            /\ (status[t] = "done" => graph[t].actions = <<>>)

\* C8 (amended): in a second complete run that follows a complete successful
\* run with no input changed in between, the run_notebooks items execute no
\* action (they end skipped-up-to-date unless a task above them fails in that
\* run), while no task that declares no targets is ever skipped-up-to-date: in
\* a second run without failures each of them that is not gated off executes
\* all its actions again.
SecondRun ==
    cmd = "run" /\ phase = "running" /\ prevFull /\ ~touched /\ selected = TaskNames

C8_SecondRunSkipsOnlyTracked ==
    SecondRun =>
        /\ \A n \in NotebookNames :
               /\ executed[n] = 0
               /\ status[n] \in {"pending", "skipped-up-to-date",
                                 "skipped-failed-dependency"}
        /\ \A t \in TaskNames :
               graph[t].targets = {} => status[t] # "skipped-up-to-date"
        /\ (cursor > Len(order) /\ \A t \in TaskNames : status[t] # "failed") =>
               /\ \A n \in NotebookNames : status[n] = "skipped-up-to-date"
               /\ \A t \in TaskNames :
                      (graph[t].targets = {} /\ status[t] # "skipped-gated-off") =>
                          (status[t] = "done" /\ executed[t] = Len(graph[t].actions))

C8_Witness ==
    /\ SecondRun
    /\ run = 2
    /\ cursor > Len(order)
    /\ gate = "available"
    /\ \A t \in TaskNames : status[t] # "failed"
    /\ \A n \in NotebookNames : status[n] = "skipped-up-to-date"
    /\ executed["calc"] = 1
    /\ executed["pull_bbg_commodities_basis"] = 1
    /\ executed["generate_pipeline_site"] = 1

NotebookOutputs == {NotebookHtml(n) : n \in DOMAIN notebook_tasks}

C9_CleanInvariant ==
    /\ cmd = "clean" => NothingRan
    /\ (cmd = "clean" /\ phase = "done") => \A f \in NotebookOutputs : files[f] = 0

C9_CleanStep ==
    (cmd = "clean" /\ phase # "done" /\ run' = run) =>
        \A f \in Paths :
            files'[f] = IF f \in NotebookOutputs /\ phase' = "done" THEN 0 ELSE files[f]

----------------------------------------------------------------------------
(* The gate alone, over every value of the two variables and every answer  *)
(* (specification SpecGate)                                                *)

InitGate ==
    /\ env_skip \in EnvValues
    /\ env_open \in EnvValues
    /\ cmd = "run"
    /\ phase = "load"
    /\ gate = "undecided"
    /\ prompts = 0
    /\ response = "<none>"
    /\ graph = NoGraph
    /\ selected = {}
    /\ order = <<>>
    /\ cursor = 1
    /\ status = Pending
    /\ executed = NoneExecuted
    /\ files = Checkout
    /\ clock = 1
    /\ run = 1
    /\ exitCode = -1
    /\ prevFull = FALSE
    /\ touched = FALSE
    /\ panel = NoPanel
    /\ request = NoRequest
    /\ warnings = <<>>
    /\ pulled = NoPanel
    /\ persisted = NoPanel
    /\ registry = notebook_tasks

LoadModuleAnyAnswer == LoadModuleWith(Responses)

NextGate ==
    \/ LoadModuleAnyAnswer
    \/ BuildGraph

SpecGate == InitGate /\ [][NextGate]_vars

\* the spellings of true/1/yes among EnvValues
SignalSet == {"1", "true", "TRUE", "True", "yes", "YES"}

\* the answers among Responses that say yes, and those that say no or quit
Affirmative == {"y", "Y", " Y ", "yes", " yes", "YES"}
Negative == {"n", "N", "no", "No", "q", "Q", "quit", "QUIT", "Quit "}

\* C1: with SKIP_BLOOMBERG set the gate is unavailable, otherwise with
\* BLOOMBERG_TERMINAL_OPEN set it is available; in both cases nothing is asked;
\* with both set, skip wins.
C1_OverridePriority ==
    phase # "load" =>
        /\ env_skip \in SignalSet =>
               (gate = "unavailable" /\ prompts = 0 /\ response = "<none>")
        /\ (env_skip \notin SignalSet /\ env_open \in SignalSet) =>
               (gate = "available" /\ prompts = 0 /\ response = "<none>")

C1_Witness ==
    /\ phase = "built"
    /\ env_skip = "YES"
    /\ env_open = "True"
    /\ gate = "unavailable"
    /\ prompts = 0
    /\ \A t \in GatedPulls : graph[t].actions = <<>>

\* C2: with neither variable set the operator is asked once; yes gives
\* available, no or quit gives abort, anything else (the empty answer included)
\* gives unavailable and the invocation goes on.
C2_PromptMapping ==
    (phase # "load" /\ env_skip \notin SignalSet /\ env_open \notin SignalSet) =>
        /\ prompts = 1
        /\ response \in Responses
        /\ response \in Affirmative => (gate = "available" /\ phase # "aborted")
        /\ response \in Negative => (gate = "abort" /\ phase = "aborted")
        /\ response \notin (Affirmative \cup Negative) =>
               (gate = "unavailable" /\ phase # "aborted")

C2_Witness ==
    /\ phase = "built"
    /\ env_skip = " 1"
    /\ env_open = "no"
    /\ prompts = 1
    /\ response = ""
    /\ gate = "unavailable"

C2_WitnessQuit ==
    /\ phase = "aborted"
    /\ prompts = 1
    /\ response = "Quit "
    /\ gate = "abort"

----------------------------------------------------------------------------
(* The graph under the two gate decisions (specification Spec)             *)

\* the dependency edges of a graph
Edges(g) ==
    {e \in (DOMAIN g) \X (UNION {g[x].task_dep : x \in DOMAIN g}) :
        e[2] \in g[e[1]].task_dep}

\* the graph the module would have built under the other decision
OtherGraph == TaskGraph(gate # "available")

\* C15: the graph built under one gate decision has the task names and the
\* dependency edges of the graph under the other decision; the gated pulls
\* exist and depend on config in both; the graphs differ only in the action
\* lists of the two gated pulls, empty exactly when the gate is unavailable.
C15_GraphShapeFixed ==
    graph # NoGraph =>
        /\ DOMAIN graph = DOMAIN OtherGraph
        /\ Edges(graph) = Edges(OtherGraph)
        /\ \A t \in GatedPulls :
               /\ t \in DOMAIN graph
               /\ "config" \in graph[t].task_dep
               /\ (graph[t].actions = <<>>) <=> (gate = "unavailable")
               /\ (OtherGraph[t].actions = <<>>) <=> (gate = "available")
               /\ [graph[t] EXCEPT !.actions = <<>>] =
                      [OtherGraph[t] EXCEPT !.actions = <<>>]
        /\ \A t \in DOMAIN graph \ GatedPulls : graph[t] = OtherGraph[t]

C15_Witness ==
    /\ gate = "unavailable"
    /\ phase = "built"
    /\ graph # OtherGraph
    /\ {t \in DOMAIN graph : graph[t] # OtherGraph[t]} = GatedPulls
    /\ \A t \in GatedPulls : graph[t].actions = <<>> /\ graph[t].task_dep = {"config"}

C15_WitnessAvailable ==
    /\ gate = "available"
    /\ phase = "built"
    /\ {t \in DOMAIN graph : graph[t] # OtherGraph[t]} = GatedPulls
    /\ \A t \in GatedPulls : graph[t].actions # <<>> /\ graph[t].task_dep = {"config"}

=============================================================================
